---- MODULE Spec2Model ----
(***************************************************************************)
(* A model of the HGSmart pet feeder integration:                          *)
(*   - the schedule codec of helpers.py (parse_plan_value,                 *)
(*     build_plan_value), with plan strings as sequences of characters;    *)
(*   - the API client of api.py (tokens, refresh, the request operations); *)
(*   - the polling cycle of coordinator.py (_async_update_data) and the    *)
(*     snapshot the DataUpdateCoordinator publishes.                       *)
(***************************************************************************)
EXTENDS Integers, Sequences, FiniteSets, TLC

VARIABLES
    \* ---- codec harness (helpers.py) ----
    codec_pc,        \* "off" | "build" | "raw" | "built" | "parsed" | "roundtrip"
                     \* | "api_build" | "api_built" | "api_roundtrip"
    args,            \* the arguments of build_plan_value
    plan_value,      \* the plan string, a sequence of characters
    parsed,          \* what parse_plan_value returned
    \* ---- HGSmartApiClient (api.py) and the cloud ----
    access_token,    \* self.access_token (0: None)
    refresh_token,   \* self.refresh_token (0: None)
    issued,          \* the token pairs the cloud has issued so far
    call,            \* the client operation in progress or last returned
    peer,            \* a second get_devices in flight on the same client
    last_timestamp,  \* uuid._last_timestamp of the process (0: None)
    message_ids,     \* the message_id of every command built, in order
    \* ---- the entities (switch.py, button.py, time.py, number.py) and the cloud ----
    ent,             \* the entity handler that ran last
    cloud_plan,      \* the plan value the cloud stores for the entities' slot
    \* ---- HGSmartDataUpdateCoordinator (coordinator.py) ----
    cy_pc,           \* "idle" | "list" | "stats" | "attrs"
    supported_devices,
    idx,             \* the position of the device loop in supported_devices
    stats,           \* the stats fetched for the current device
    device_data,     \* the cycle's local dict
    data,            \* coordinator.data, the published snapshot
    last_update_success,
    last_exception   \* what the last cycle raised ("": it returned)

codecVars == <<codec_pc, args, plan_value, parsed>>

tokenVars == <<access_token, refresh_token, issued>>

apiVars == <<access_token, refresh_token, issued, call>>

syncVars == <<cy_pc, supported_devices, idx, stats, device_data, data,
              last_update_success, last_exception>>

uuidVars == <<last_timestamp, message_ids>>

hostVars == <<ent, cloud_plan>>

vars == <<codecVars, apiVars, peer, uuidVars, hostVars, syncVars>>

(***************************************************************************)
(* Python values.                                                          *)
(***************************************************************************)
\* Python's None, as a record so that it compares with the dicts it stands in for.
None == [none |-> TRUE]

\* No exception was raised.
NoException == ""

\* The empty dict {} and the empty list [].
EmptyDict == <<>>

\* bool(v) of None or a dict.
Truthy(v) == v # None /\ v # EmptyDict

\* d.get(key, default)
Get(d, key, default) == IF key \in DOMAIN d THEN d[key] ELSE default

\* d[key] = value
DictSet(d, key, value) == [k \in DOMAIN d \cup {key} |-> IF k = key THEN value ELSE d[k]]

Digits == <<"0", "1", "2", "3", "4", "5", "6", "7", "8", "9">>

DigitChars == {Digits[i] : i \in 1..10}

DigitVal(c) == (CHOOSE i \in 1..10 : Digits[i] = c) - 1

\* str.strip() of the whitespace the alphabet has (the blank).
RECURSIVE LStrip(_)
LStrip(s) == IF s # <<>> /\ Head(s) = " " THEN LStrip(Tail(s)) ELSE s

RECURSIVE RStrip(_)
RStrip(s) == IF s # <<>> /\ s[Len(s)] = " " THEN RStrip(SubSeq(s, 1, Len(s) - 1)) ELSE s

\* The value of a sequence of digits and underscores read in base 10.
RECURSIVE DecValue(_, _)
DecValue(s, acc) ==
    IF s = <<>> THEN acc
    ELSE IF Head(s) = "_" THEN DecValue(Tail(s), acc)
    ELSE DecValue(Tail(s), acc * 10 + DigitVal(Head(s)))

\* The digit part of an int() literal: digits, with single underscores between digits.
WellFormedDigits(s) ==
    /\ s # <<>>
    /\ \A i \in 1..Len(s) : s[i] \in DigitChars \cup {"_"}
    /\ s[1] \in DigitChars
    /\ s[Len(s)] \in DigitChars
    /\ \A i \in 1..(Len(s) - 1) : ~(s[i] = "_" /\ s[i + 1] = "_")

\* Python's int(str): blanks stripped, an optional sign, then the digits;
\* anything else is a ValueError.
py_int(s) ==
    LET t == RStrip(LStrip(s))
        signed == t # <<>> /\ Head(t) \in {"+", "-"}
        body == IF signed THEN Tail(t) ELSE t
    IN  IF WellFormedDigits(body)
        THEN [ok |-> TRUE,
              val |-> IF signed /\ Head(t) = "-" THEN 0 - DecValue(body, 0)
                      ELSE DecValue(body, 0)]
        ELSE [ok |-> FALSE, err |-> "ValueError"]

\* str(n) of a natural number.
RECURSIVE NatStr(_)
NatStr(n) == IF n < 10 THEN <<Digits[n + 1]>> ELSE NatStr(n \div 10) \o <<Digits[(n % 10) + 1]>>

\* f"{n}"
Fmt(n) == IF n < 0 THEN <<"-">> \o NatStr(0 - n) ELSE NatStr(n)

\* f"{n:02d}": zero-padded to a width of at least 2, the sign counted in the width.
Fmt02(n) ==
    IF n < 0 THEN <<"-">> \o NatStr(0 - n)
    ELSE IF n < 10 THEN <<"0">> \o NatStr(n)
    ELSE NatStr(n)

(***************************************************************************)
(* helpers.py: the schedule codec.                                         *)
(***************************************************************************)
\* The exceptions parse_plan_value's try block catches.
ParseCaught == {"ValueError", "IndexError"}

\* plan_value[i:j] of Python (0-based, j exclusive), clipped like a slice.
Slice(s, i, j) == SubSeq(s, i + 1, IF j > Len(s) THEN Len(s) ELSE j)

\* The validation and the returned dict (helpers.py lines 58-86).
ParsedSlotIgnoringStatus(status, hour, minute, portions, slot) ==
    IF ~(0 <= hour /\ hour <= 23 /\ 0 <= minute /\ minute <= 59) THEN None
    ELSE IF portions = 0 THEN None
    ELSE [enabled |-> status = 1, hour |-> hour, minute |-> minute,
          portions |-> IF portions > 0 THEN portions ELSE 1, slot |-> slot]

ParsedSlotSwappedFields(status, hour, minute, portions, slot) ==
    IF ~(0 <= hour /\ hour <= 23 /\ 0 <= minute /\ minute <= 59) THEN None
    ELSE IF status = 0 THEN None
    ELSE IF status = 3 THEN None
    ELSE IF portions = 0 THEN None
    ELSE [enabled |-> status = 1, hour |-> hour, minute |-> minute,
          portions |-> slot, slot |-> portions]

ParsedSlot(status, hour, minute, portions, slot) ==
    IF ~(0 <= hour /\ hour <= 23 /\ 0 <= minute /\ minute <= 59) THEN None
    ELSE IF status = 0 THEN None
    ELSE IF status = 3 THEN None
    ELSE IF portions = 0 THEN None
    ELSE [enabled |-> status = 1, hour |-> hour, minute |-> minute,
          portions |-> IF portions > 0 THEN portions ELSE 1, slot |-> slot]

\* parse_plan_value: a ScheduleSlotData dict, None, or an exception that escapes.
parse_plan_value(pv) ==
    IF pv = <<>> \/ pv = <<"0">> \/ Len(pv) < 8 THEN None
    ELSE LET status == py_int(<<pv[1]>>)
             hour == py_int(Slice(pv, 1, 3))
             minute == py_int(Slice(pv, 3, 5))
             portions == py_int(<<pv[7]>>)
             slot == py_int(<<pv[8]>>)
             fields == <<status, hour, minute, portions, slot>>
             failed == {i \in 1..5 : ~fields[i].ok}
         IN  IF failed # {}
             THEN LET e == fields[CHOOSE i \in failed : \A j \in failed : i <= j].err
                  IN  IF e \in ParseCaught THEN None ELSE [raised |-> e]
             ELSE ParsedSlot(status.val, hour.val, minute.val, portions.val, slot.val)

\* The result is a ScheduleSlotData dict (truthy), not None.
IsSlotData(r) == "hour" \in DOMAIN r

\* The result is an exception that left parse_plan_value.
Raised(r) == "raised" \in DOMAIN r

build_plan_value_unpadded(hour, minute, portions, slot, enabled) ==
    LET status == IF enabled THEN 1 ELSE 0
    IN  Fmt(status) \o Fmt(hour) \o Fmt(minute) \o <<"0">> \o Fmt(portions) \o Fmt(slot)

\* build_plan_value: f"{status}{hour:02d}{minute:02d}0{portions}{slot}"
build_plan_value(hour, minute, portions, slot, enabled) ==
    LET status == IF enabled THEN 1 ELSE 0
    IN  Fmt(status) \o Fmt02(hour) \o Fmt02(minute) \o <<"0">> \o Fmt(portions) \o Fmt(slot)

(***************************************************************************)
(* api.py: the codec of the client (HGSmartApiClient.parse_plan_value and  *)
(* HGSmartApiClient.build_plan_value), the one set_feeding_schedule uses.  *)
(***************************************************************************)
\* HGSmartApiClient.parse_plan_value: hour, minute and portions are read from
\* the first six characters, enabled from the seventh; any exception gives None.
api_parse_plan_value(pv) ==
    IF pv = <<>> \/ pv = <<"0">> THEN None
    ELSE LET hour == py_int(Slice(pv, 0, 2))
             minute == py_int(Slice(pv, 2, 4))
             portions == py_int(Slice(pv, 4, 6))
         IN  IF ~(hour.ok /\ minute.ok /\ portions.ok) THEN None
             ELSE [hour |-> hour.val, minute |-> minute.val, portions |-> portions.val,
                   enabled |-> Slice(pv, 6, 7) = <<"1">>,
                   time |-> Fmt02(hour.val) \o <<":">> \o Fmt02(minute.val)]

\* HGSmartApiClient.build_plan_value: delete gives "3200" portions slot "1";
\* the other operations give hour, minute, portions, then enabled, slot and
\* the operation code.
api_build_plan_value_portions_unpadded(hour, minute, portions, slot, operation) ==
    IF operation = "delete"
    THEN <<"3", "2", "0", "0">> \o Fmt(portions) \o Fmt(slot) \o Fmt(1)
    ELSE LET enabled == IF operation = "disable" THEN 0 ELSE 1
             op_code == IF operation = "create" THEN 3 ELSE 2
         IN  Fmt02(hour) \o Fmt02(minute) \o Fmt(portions)
                \o Fmt(enabled) \o Fmt(slot) \o Fmt(op_code)

api_build_plan_value(hour, minute, portions, slot, operation) ==
    IF operation = "delete"
    THEN <<"3", "2", "0", "0">> \o Fmt02(portions) \o Fmt(slot) \o Fmt(1)
    ELSE LET enabled == IF operation = "disable" THEN 0 ELSE 1
             op_code == IF operation = "create" THEN 3 ELSE 2
         IN  Fmt02(hour) \o Fmt02(minute) \o Fmt02(portions)
                \o Fmt(enabled) \o Fmt(slot) \o Fmt(op_code)

(***************************************************************************)
(* The cloud's responses.                                                  *)
(***************************************************************************)
\* The number of token pairs the cloud issues: it bounds the logins and the
\* refreshes that succeed, and so the depth of get_devices' recursion.
MaxIssued == 3

\* A transport failure, a timeout or a body that is not JSON: the exception
\* that the session's get/post/put or response.json() raises.
TransportError == [error |-> "ClientError"]

\* data.get("code"), 0 standing for the exception.
CodeOf(resp) == IF "code" \in DOMAIN resp THEN resp.code ELSE 0

\* The answers of the login and the refresh endpoint: code 200 with both
\* tokens, with the access token alone or with no "data", or another code.
TokenResponses ==
    {[code |-> 200, body |-> "pair"], [code |-> 200, body |-> "access_only"],
     [code |-> 200, body |-> "no_data"], [code |-> 401], [code |-> 500],
     TransportError}

\* The cloud has a token pair left to issue.
Issuable(resp) ==
    (CodeOf(resp) = 200 /\ resp.body \in {"pair", "access_only"}) => issued < MaxIssued

D1 == [deviceId |-> "d1", type |-> "S25D", name |-> "Feeder 1"]

D2 == [deviceId |-> "d2", type |-> "S25D", name |-> "Feeder 2"]

\* A device of a model that is not supported.
X3 == [deviceId |-> "x3", type |-> "F10", name |-> "Fountain"]

\* A device record without "type" and one without "deviceId".
NoType == [deviceId |-> "d4", name |-> "Untyped"]

NoId == [type |-> "S25D", name |-> "Anonymous"]

DeviceLists ==
    {<<>>, <<X3>>, <<D1>>, <<D1, D2>>, <<X3, D1>>, <<NoType, D1>>, <<D1, NoId>>}

\* The cloud's plan is not modelled: the attributes it answers are arbitrary.
NoPlan == <<>>

\* The cloud keeps the plan value written to it and answers with it; its
\* other answers are then the plain ones of an account with one feeder.
CloudStores == cloud_plan # NoPlan

ListResponses ==
    IF CloudStores
    THEN {[code |-> 200, data |-> <<D1>>], [code |-> 401]}
    ELSE {[code |-> 200, data |-> l] : l \in DeviceLists}
            \cup {[code |-> 200], [code |-> 401], [code |-> 500], TransportError}

StatsPayload == [remaining |-> 80, desiccant |-> 12]

StatsResponses ==
    IF CloudStores
    THEN {[code |-> 200, data |-> StatsPayload]}
    ELSE {[code |-> 200, data |-> StatsPayload], [code |-> 200, data |-> EmptyDict],
          [code |-> 401], TransportError}

PlanKeys == <<"plan0", "plan1", "plan2", "plan3", "plan4", "plan5">>

\* Attributes with a plan of another slot, an empty plan, a disabled, an
\* undecodable and a deleted one; plan4 is missing.
AttrsMixed ==
    [plan0 |-> <<"1", "0", "9", "4", "0", "0", "3", "3">>,
     plan1 |-> <<"0">>,
     plan2 |-> <<"0", "0", "8", "0", "0", "0", "1", "2">>,
     plan3 |-> <<"1", "x", "9", "4", "0", "0", "3", "3">>,
     plan5 |-> <<"3", "2", "2", "3", "4", "5", "0", "1">>]

\* The slot of the schedule entities of the model (self.slot).
EntitySlot == 3

\* The attributes of the cloud that stores: the plan of the entities' slot,
\* verbatim as it was written.
CloudAttrs == [plan3 |-> cloud_plan]

AttrsResponses ==
    IF CloudStores
    THEN {[code |-> 200, data |-> CloudAttrs], TransportError}
    ELSE {[code |-> 200, data |-> a] : a \in {EmptyDict, AttrsMixed}}
            \cup {[code |-> 401], TransportError}

ControlResponses == {[code |-> 200], [code |-> 401], [code |-> 500], TransportError}

(***************************************************************************)
(* api.py: HGSmartApiClient.                                               *)
(***************************************************************************)
\* The endpoint an operation requests (BASE_URL and the device id left out).
UrlOfRefreshByLogin(op) ==
    CASE op \in {"login", "refresh_access_token"} -> "/oauth/login"
      [] op = "get_devices" -> "/app/device/list"
      [] op = "get_feeder_stats" -> "/app/device/feeder/summary"
      [] OTHER -> "/app/device/attribute"

UrlOf(op) ==
    CASE op = "login" -> "/oauth/login"
      [] op = "refresh_access_token" -> "/oauth/refreshToken"
      [] op = "get_devices" -> "/app/device/list"
      [] op = "get_feeder_stats" -> "/app/device/feeder/summary"
      [] OTHER -> "/app/device/attribute"

\* No operation in progress, none returned yet.
IdleCall ==
    [op |-> "none", arg |-> None, pc |-> "idle", sent |-> <<>>, refreshes |-> <<>>,
     codes |-> <<>>, urls |-> <<>>, result |-> None]

\* An operation that has issued no request yet. sent: the bearer token of each
\* request issued (0: none stored); refreshes: the refresh token of each
\* refresh exchange; codes: the code of each answer to the operation's
\* requests; urls: the endpoint of every request and exchange, in order.
NewCall(op, arg) ==
    [op |-> op, arg |-> arg, pc |-> "request", sent |-> <<>>, refreshes |-> <<>>,
     codes |-> <<>>, urls |-> <<>>, result |-> <<>>]

\* An operation of one request: what it records and returns.
OneRequest(op, arg, resp, result) ==
    [op |-> op, arg |-> arg, pc |-> "returned", sent |-> <<access_token>>,
     refreshes |-> <<>>, codes |-> <<CodeOf(resp)>>, urls |-> <<UrlOf(op)>>,
     result |-> result]

CallIdle == call.pc \in {"idle", "returned"}

\* The exchange of login and refresh_access_token: on code 200 the two
\* assignments, the second of which raises KeyError when the body lacks the
\* refresh token; the exception is caught and the operation returns False.
TokenExchangeOk(resp) == CodeOf(resp) = 200 /\ resp.body = "pair"

StoreTokens(resp) ==
    IF CodeOf(resp) = 200 /\ resp.body = "pair"
    THEN /\ access_token' = issued + 1
         /\ refresh_token' = issued + 1
         /\ issued' = issued + 1
    ELSE IF CodeOf(resp) = 200 /\ resp.body = "access_only"
    THEN /\ access_token' = issued + 1
         /\ issued' = issued + 1
         /\ UNCHANGED refresh_token
    ELSE UNCHANGED tokenVars

\* login()
ApiLogin ==
    \E resp \in TokenResponses :
        /\ Issuable(resp)
        /\ StoreTokens(resp)
        /\ call' = [op |-> "login", arg |-> None, pc |-> "returned", sent |-> <<>>,
                    refreshes |-> <<>>, codes |-> <<CodeOf(resp)>>,
                    urls |-> <<UrlOf("login")>>, result |-> TokenExchangeOk(resp)]

\* _get_headers(): the bearer token of the Authorization header, the access
\* token stored at the time of the request (0: no header).
BearerTokenOfFirstRequest == IF call.sent # <<>> THEN call.sent[1] ELSE access_token

BearerToken == access_token

\* What get_devices does with the answer to its request: return the list,
\* go on to refresh_access_token, or return [].
GetDevicesAfter(resp) ==
    IF CodeOf(resp) = 200 THEN [pc |-> "returned", result |-> Get(resp, "data", <<>>)]
    ELSE IF CodeOf(resp) = 401 THEN [pc |-> "refresh", result |-> <<>>]
    ELSE [pc |-> "returned", result |-> <<>>]

\* get_devices(), from its entry (or its re-entry after a refresh) to the
\* answer to its request.
GetDevicesRequest ==
    /\ call.op = "get_devices"
    /\ call.pc = "request"
    /\ \E resp \in ListResponses :
        call' = [call EXCEPT !.sent = Append(@, BearerToken),
                             !.codes = Append(@, CodeOf(resp)),
                             !.urls = Append(@, UrlOf("get_devices")),
                             !.pc = GetDevicesAfter(resp).pc,
                             !.result = GetDevicesAfter(resp).result]
    /\ UNCHANGED <<tokenVars, syncVars, codecVars, peer, uuidVars, hostVars>>

\* What get_devices does when refresh_access_token has returned: call itself
\* again on True, return [] on False.
AfterRefresh(ok) == IF ok THEN "request" ELSE "returned"

\* refresh_access_token(), awaited by get_devices on code 401.
RefreshAccessToken ==
    /\ call.op = "get_devices"
    /\ call.pc = "refresh"
    /\ IF refresh_token = 0
       THEN /\ call' = [call EXCEPT !.pc = AfterRefresh(FALSE)]
            /\ UNCHANGED tokenVars
       ELSE \E resp \in TokenResponses :
            /\ Issuable(resp)
            /\ StoreTokens(resp)
            /\ call' = [call EXCEPT !.refreshes = Append(@, refresh_token),
                                    !.urls = Append(@, UrlOf("refresh_access_token")),
                                    !.pc = AfterRefresh(TokenExchangeOk(resp))]
    /\ UNCHANGED <<syncVars, codecVars, peer, uuidVars, hostVars>>

\* What get_feeder_stats and get_device_attributes return: data.get("data")
\* on code 200, None on any other code and on an exception.
FetchResult(resp) == IF CodeOf(resp) = 200 THEN Get(resp, "data", None) ELSE None

\* get_feeder_stats(device_id)
ApiGetFeederStats(device_id, resp) ==
    /\ call' = OneRequest("get_feeder_stats", device_id, resp, FetchResult(resp))
    /\ UNCHANGED tokenVars

\* get_device_attributes(device_id)
ApiGetDeviceAttributes(device_id, resp) ==
    /\ call' = OneRequest("get_device_attributes", device_id, resp, FetchResult(resp))
    /\ UNCHANGED tokenVars

\* The commands built in a run of the model.
MaxCommands == 2

\* What time.time_ns() // 100 reads when a command is built: the clock may
\* stand still between two commands, or step back.
ClockReadings == {1, 3}

\* The timestamp of uuid.uuid1(node, clock_seq): the clock's reading, or one
\* more than the last timestamp when the reading is not above it.
uuid1_timestamp_of_clock(now, last) == now

uuid1_timestamp(now, last) == IF last # 0 /\ now <= last THEN last + 1 ELSE now

\* spoofed_uuid.hex: the timestamp with the fixed clock_seq and node.
MessageId(timestamp) ==
    [time |-> timestamp, clock_seq |-> "8697", node |-> "8DD711617773"]

\* The command envelope is built: message_id of uuid1.
BuildCommand ==
    /\ Len(message_ids) < MaxCommands
    /\ \E now \in ClockReadings :
        /\ last_timestamp' = uuid1_timestamp(now, last_timestamp)
        /\ message_ids' = Append(message_ids, MessageId(last_timestamp'))

\* The value of the plan command set_feeding_schedule builds.
CommandValue(a) ==
    api_build_plan_value(a.hour, a.minute, a.portions, a.slot,
                         IF a.enabled THEN "edit" ELSE "disable")

\* set_feeding_schedule(device_id, slot, hour, minute, portions, enabled): the
\* command is built and put, whatever the arguments are.
ApiSetFeedingSchedule(a, resp) ==
    /\ BuildCommand
    /\ call' = OneRequest("set_feeding_schedule", a, resp, CodeOf(resp) = 200)
    /\ UNCHANGED tokenVars

\* send_feed_command(device_id): it takes no portions.
ApiSendFeedCommand(device_id, resp) ==
    /\ BuildCommand
    /\ call' = OneRequest("send_feed_command", [device_id |-> device_id], resp,
                          CodeOf(resp) = 200)
    /\ UNCHANGED tokenVars

\* The arguments the control operations are called with, in and out of range.
ScheduleArgs ==
    [device_id : {"d1"}, slot : {3, 6}, hour : {9, 24}, minute : {40, 60},
     portions : {3, 0, 10}, enabled : BOOLEAN]

ValidScheduleArgs(a) ==
    /\ a.slot \in 0..5
    /\ a.hour \in 0..23
    /\ a.minute \in 0..59
    /\ a.portions \in 1..9

\* No second get_devices has been called.
NoPeer == [pc |-> "off", refreshes |-> <<>>]

InitApi ==
    /\ access_token = 0
    /\ refresh_token = 0
    /\ issued = 0
    /\ call = IdleCall
    /\ peer = NoPeer
    /\ last_timestamp = 0
    /\ message_ids = <<>>

Login ==
    /\ CallIdle
    /\ cy_pc = "idle"
    /\ ApiLogin
    /\ UNCHANGED <<syncVars, codecVars, peer, uuidVars, hostVars>>

GetDevices ==
    /\ CallIdle
    /\ cy_pc = "idle"
    /\ call' = NewCall("get_devices", None)
    /\ UNCHANGED <<tokenVars, syncVars, codecVars, peer, uuidVars, hostVars>>

GetFeederStats ==
    /\ CallIdle
    /\ cy_pc = "idle"
    /\ \E resp \in StatsResponses : ApiGetFeederStats("d1", resp)
    /\ UNCHANGED <<syncVars, codecVars, peer, uuidVars, hostVars>>

GetDeviceAttributes ==
    /\ CallIdle
    /\ cy_pc = "idle"
    /\ \E resp \in AttrsResponses : ApiGetDeviceAttributes("d1", resp)
    /\ UNCHANGED <<syncVars, codecVars, peer, uuidVars, hostVars>>

SetFeedingSchedule ==
    /\ CallIdle
    /\ cy_pc = "idle"
    /\ \E a \in ScheduleArgs, resp \in ControlResponses : ApiSetFeedingSchedule(a, resp)
    /\ UNCHANGED <<syncVars, codecVars, peer, hostVars>>

SendFeedCommand ==
    /\ CallIdle
    /\ cy_pc = "idle"
    /\ \E resp \in ControlResponses : ApiSendFeedCommand("d1", resp)
    /\ UNCHANGED <<syncVars, codecVars, peer, hostVars>>

\* A second get_devices() is called on the client while the first may be in
\* flight. Its steps are those of get_devices; its refresh exchange is split
\* at the await of the post, where the other call can run.
PeerGetDevices ==
    /\ peer.pc \in {"off", "returned"}
    /\ cy_pc = "idle"
    /\ peer' = [pc |-> "request", refreshes |-> <<>>]
    /\ UNCHANGED <<apiVars, syncVars, codecVars, uuidVars, hostVars>>

\* The peer's request is answered.
PeerRequest ==
    /\ peer.pc = "request"
    /\ \E resp \in ListResponses : peer' = [peer EXCEPT !.pc = GetDevicesAfter(resp).pc]
    /\ UNCHANGED <<apiVars, syncVars, codecVars, uuidVars, hostVars>>

\* The peer's refresh_access_token up to the await of session.post: the
\* stored refresh token is read and submitted.
PeerRefreshPost ==
    /\ peer.pc = "refresh"
    /\ peer' = IF refresh_token = 0
               THEN [peer EXCEPT !.pc = AfterRefresh(FALSE)]
               ELSE [peer EXCEPT !.pc = "posted",
                                 !.refreshes = Append(@, refresh_token)]
    /\ UNCHANGED <<apiVars, syncVars, codecVars, uuidVars, hostVars>>

\* The peer's refresh exchange is answered: the two assignments.
PeerRefreshAnswer ==
    /\ peer.pc = "posted"
    /\ \E resp \in TokenResponses :
        /\ Issuable(resp)
        /\ StoreTokens(resp)
        /\ peer' = [peer EXCEPT !.pc = AfterRefresh(TokenExchangeOk(resp))]
    /\ UNCHANGED <<call, syncVars, codecVars, uuidVars, hostVars>>

(***************************************************************************)
(* coordinator.py: HGSmartDataUpdateCoordinator._async_update_data, and    *)
(* what the DataUpdateCoordinator does with its outcome.                   *)
(***************************************************************************)
SCHEDULE_SLOTS == 6

\* The slot a missing or undecoded plan gets.
DefaultSlot(slot) ==
    [enabled |-> FALSE, hour |-> 8, minute |-> 0, portions |-> 1, slot |-> slot]

\* schedules[slot] of one plan field.
ScheduleOf(attributes, slot) ==
    LET p == parse_plan_value(Get(attributes, PlanKeys[slot + 1], <<"0">>))
    IN  IF IsSlotData(p) THEN p ELSE DefaultSlot(slot)

\* The schedules dict: filled only when the attributes are truthy.
Schedules(attributes) ==
    IF Truthy(attributes)
    THEN [slot \in 0..(SCHEDULE_SLOTS - 1) |-> ScheduleOf(attributes, slot)]
    ELSE EmptyDict

\* v or {}
OrEmptyKeepingNone(v) == v

OrEmpty(v) == IF Truthy(v) THEN v ELSE EmptyDict

\* device_data[device_id] of one device.
DeviceEntry(device, st, attributes) ==
    [device_info |-> device, stats |-> OrEmpty(st), attributes |-> OrEmpty(attributes),
     schedules |-> Schedules(attributes)]

\* The filter to the supported model.
SupportedAll(devices) == devices

Supported(devices) == SelectSeq(devices, LAMBDA d : Get(d, "type", "") = "S25D")

\* The outcome of the list step: "failed" when the list is empty or holds no
\* supported device (UpdateFailed is raised), "fetch" otherwise.
ListOutcomeNeverFails(devices) == "fetch"

ListOutcome(devices) ==
    IF devices = <<>> THEN "failed"
    ELSE IF Supported(devices) = <<>> THEN "failed"
    ELSE "fetch"

\* The except clause of _async_update_data: whatever is raised inside leaves
\* as UpdateFailed.
EscapingUncaught(exc) == exc

Escaping(exc) == "UpdateFailed"

\* device_data = {}: the dict a cycle fills is a new one.
DeviceDataOfSnapshot == IF data = None THEN EmptyDict ELSE data

FreshDeviceData == EmptyDict

\* The cycle's locals, gone when it ends.
NoLocals ==
    /\ supported_devices' = <<>>
    /\ idx' = 0
    /\ stats' = None
    /\ device_data' = EmptyDict

\* The DataUpdateCoordinator, when _async_update_data raises: the snapshot
\* stays, the success flag goes false.
CycleRaises(exc) ==
    /\ last_exception' = Escaping(exc)
    /\ last_update_success' = FALSE
    /\ cy_pc' = "idle"
    /\ UNCHANGED data
    /\ NoLocals

\* The DataUpdateCoordinator, when _async_update_data returns: the returned
\* dict is the snapshot, the success flag goes true.
CycleReturns(result) ==
    /\ data' = result
    /\ last_exception' = NoException
    /\ last_update_success' = TRUE
    /\ cy_pc' = "idle"
    /\ NoLocals

\* async_setup_entry: the client is constructed and logs in; when login
\* returns False the setup is given up (ConfigEntryNotReady).
SetupEntry ==
    /\ call.op = "none"
    /\ ApiLogin
    /\ UNCHANGED <<syncVars, codecVars, peer, uuidVars, hostVars>>

\* The coordinator exists and is kept: login returned True (only then a
\* refresh token is stored), and the first refresh did not fail.
CoordinatorLoaded ==
    /\ refresh_token # 0
    /\ ~(data = None /\ last_exception # NoException)

\* A cycle starts: _async_update_data calls get_devices.
CycleStart ==
    /\ cy_pc = "idle"
    /\ CallIdle
    /\ CoordinatorLoaded
    /\ cy_pc' = "list"
    /\ call' = NewCall("get_devices", None)
    /\ UNCHANGED <<tokenVars, codecVars, peer, uuidVars, hostVars>>
    /\ UNCHANGED <<supported_devices, idx, stats, device_data, data,
                   last_update_success, last_exception>>

\* get_devices has returned: the two emptiness checks and the filter.
CycleListed ==
    /\ cy_pc = "list"
    /\ call.op = "get_devices"
    /\ call.pc = "returned"
    /\ IF ListOutcome(call.result) = "failed"
       THEN CycleRaises("UpdateFailed")
       ELSE /\ supported_devices' = Supported(call.result)
            /\ idx' = 1
            /\ device_data' = FreshDeviceData
            /\ cy_pc' = "stats"
            /\ UNCHANGED <<stats, data, last_update_success, last_exception>>
    /\ UNCHANGED <<apiVars, codecVars, peer, uuidVars, hostVars>>

\* The loop's first half for one device: device["deviceId"] (a KeyError when
\* the record has none) and get_feeder_stats.
CycleStats ==
    /\ cy_pc = "stats"
    /\ LET device == supported_devices[idx]
       IN  IF "deviceId" \notin DOMAIN device
           THEN CycleRaises("KeyError") /\ UNCHANGED apiVars
           ELSE \E resp \in StatsResponses :
                /\ ApiGetFeederStats(device.deviceId, resp)
                /\ stats' = FetchResult(resp)
                /\ cy_pc' = "attrs"
                /\ UNCHANGED <<supported_devices, idx, device_data, data,
                               last_update_success, last_exception>>
    /\ UNCHANGED <<codecVars, peer, uuidVars, hostVars>>

\* The loop's second half: get_device_attributes, the schedules, the entry;
\* after the last device the dict is returned.
CycleAttrs ==
    /\ cy_pc = "attrs"
    /\ \E resp \in AttrsResponses :
        LET device == supported_devices[idx]
            entry == DeviceEntry(device, stats, FetchResult(resp))
            filled == DictSet(device_data, device.deviceId, entry)
        IN  /\ ApiGetDeviceAttributes(device.deviceId, resp)
            /\ IF idx < Len(supported_devices)
               THEN /\ device_data' = filled
                    /\ idx' = idx + 1
                    /\ stats' = None
                    /\ cy_pc' = "stats"
                    /\ UNCHANGED <<supported_devices, data, last_update_success,
                                   last_exception>>
               ELSE CycleReturns(filled)
    /\ UNCHANGED <<codecVars, peer, uuidVars, hostVars>>

(***************************************************************************)
(* The entities: switch.py, button.py, time.py, number.py. A handler reads *)
(* coordinator.data, awaits one client operation and then requests a       *)
(* refresh or raises.                                                      *)
(***************************************************************************)
\* What a handler did: request: it issued a request; success: what the client
\* operation returned; refresh: it called coordinator.async_request_refresh();
\* raised: the exception it left with; args: the arguments of the schedule
\* write; schedule: schedules[slot] as it read it; fresh: the snapshot it read
\* held the plan the cloud stored; prev_*: the same of the switch handler
\* that ran before a switch handler.
Handled(op, request, success, refresh, raised, written, schedule) ==
    [op |-> op, request |-> request, success |-> success, refresh |-> refresh,
     raised |-> raised, args |-> written, schedule |-> schedule, fresh |-> FALSE,
     prev_op |-> "none", prev_ok |-> FALSE, prev_schedule |-> None]

\* No entity has acted.
NoEntity == Handled("none", FALSE, FALSE, FALSE, NoException, None, None)

HostOff ==
    /\ ent = NoEntity
    /\ cloud_plan = NoPlan

\* The entities exist: the first refresh has published a snapshot.
EntitiesAdded ==
    /\ cy_pc = "idle"
    /\ CallIdle
    /\ data # None

\* self.coordinator.data.get(self.device_id)
DeviceData == Get(data, "d1", None)

\* device_data.get("schedules", {}).get(self.slot)
ScheduleRead == Get(Get(DeviceData, "schedules", EmptyDict), EntitySlot, None)

\* The snapshot holds the plan the cloud stores.
SnapshotFresh ==
    /\ Truthy(DeviceData)
    /\ Get(DeviceData.attributes, PlanKeys[EntitySlot + 1], NoPlan) = cloud_plan

\* A switch handler, after the one that ran before it.
SwitchHandled(op, request, success, refresh, written) ==
    [Handled(op, request, success, refresh, NoException, written, ScheduleRead)
        EXCEPT !.fresh = SnapshotFresh,
               !.prev_op = IF ent.op \in {"turn_on", "turn_off"} THEN ent.op ELSE "none",
               !.prev_ok = ent.op \in {"turn_on", "turn_off"} /\ ent.request /\ ent.success,
               !.prev_schedule = IF ent.op \in {"turn_on", "turn_off"}
                                 THEN ent.schedule ELSE None]

\* The arguments the switch passes to set_feeding_schedule: the schedule of
\* the snapshot, or 08:00 and 1 portion when the slot has none.
SwitchArgs(enabled) ==
    IF Truthy(ScheduleRead)
    THEN [device_id |-> "d1", slot |-> EntitySlot, hour |-> ScheduleRead.hour,
          minute |-> ScheduleRead.minute, portions |-> ScheduleRead.portions,
          enabled |-> enabled]
    ELSE [device_id |-> "d1", slot |-> EntitySlot, hour |-> 8, minute |-> 0,
          portions |-> 1, enabled |-> enabled]

\* The put of set_feeding_schedule reaches the cloud, which stores the value
\* of the command when it answers code 200.
WriteSchedule(a) ==
    \E resp \in ControlResponses :
        /\ ApiSetFeedingSchedule(a, resp)
        /\ cloud_plan' = IF CodeOf(resp) = 200 THEN CommandValue(a) ELSE cloud_plan
        /\ ent' = SwitchHandled(IF a.enabled THEN "turn_on" ELSE "turn_off", TRUE,
                                CodeOf(resp) = 200, TRUE, a)

\* The handler returns before any request.
SwitchReturns(op) ==
    /\ ent' = SwitchHandled(op, FALSE, FALSE, FALSE, None)
    /\ UNCHANGED <<apiVars, uuidVars, cloud_plan>>

\* HGSmartScheduleSwitch.async_turn_on
SwitchTurnOn ==
    /\ EntitiesAdded
    /\ IF ~Truthy(DeviceData) THEN SwitchReturns("turn_on")
       ELSE WriteSchedule(SwitchArgs(TRUE))
    /\ UNCHANGED <<syncVars, codecVars, peer>>

\* HGSmartScheduleSwitch.async_turn_off
SwitchTurnOff ==
    /\ EntitiesAdded
    /\ IF ~Truthy(DeviceData) \/ ~Truthy(ScheduleRead) THEN SwitchReturns("turn_off")
       ELSE WriteSchedule(SwitchArgs(FALSE))
    /\ UNCHANGED <<syncVars, codecVars, peer>>

\* An operation of the client the entities call that api.py does not define
\* with that signature: send_feed_command(device_id, portions),
\* set_schedule, reset_desiccant, set_food_remaining. Each is one request
\* that returns whether the device acknowledged.
ApiControl(op, arg, resp) ==
    /\ call' = OneRequest(op, arg, resp, CodeOf(resp) = 200)
    /\ UNCHANGED <<tokenVars, uuidVars>>

\* success = await self.api.<op>(...), then the refresh when the handler has
\* one, or raise HomeAssistantError.
AwaitControl(handler, op, arg, refreshes, schedule) ==
    \E resp \in ControlResponses :
        /\ ApiControl(op, arg, resp)
        /\ ent' = Handled(handler, TRUE, CodeOf(resp) = 200,
                          CodeOf(resp) = 200 /\ refreshes,
                          IF CodeOf(resp) = 200 THEN NoException ELSE "HomeAssistantError",
                          arg, schedule)
        /\ UNCHANGED cloud_plan

\* raise HomeAssistantError("Device data not available")
NotAvailable(handler) ==
    /\ ent' = Handled(handler, FALSE, FALSE, FALSE, "HomeAssistantError", None, None)
    /\ UNCHANGED <<apiVars, uuidVars, cloud_plan>>

\* HGSmartFeedButton.async_press: no refresh follows the command.
FeedButtonPress ==
    /\ EntitiesAdded
    /\ AwaitControl("feed", "send_feed_command", [device_id |-> "d1", portions |-> 1],
                    FALSE, None)
    /\ UNCHANGED <<syncVars, codecVars, peer>>

\* HGSmartResetDesiccantButton.async_press
ResetDesiccantPress ==
    /\ EntitiesAdded
    /\ AwaitControl("reset_desiccant", "reset_desiccant", [device_id |-> "d1"], TRUE, None)
    /\ UNCHANGED <<syncVars, codecVars, peer>>

\* HGSmartFoodRemainingNumber.async_set_native_value
FoodRemainingSet ==
    /\ EntitiesAdded
    /\ AwaitControl("set_food_remaining", "set_food_remaining",
                    [device_id |-> "d1", percentage |-> 50], TRUE, None)
    /\ UNCHANGED <<syncVars, codecVars, peer>>

\* device_data["schedules"].get(self.slot, {})
ScheduleOrEmpty == Get(Get(DeviceData, "schedules", EmptyDict), EntitySlot, EmptyDict)

\* not device_data or not device_data.get("schedules")
SchedulesMissing ==
    ~Truthy(DeviceData) \/ ~Truthy(Get(DeviceData, "schedules", None))

\* The host's local time is one hour ahead of UTC.
UtcOffsetHours == 1

\* dt_util.as_utc(local_dt).hour
as_utc_hour(hour) == (hour - UtcOffsetHours) % 24

\* The times the host sets, local.
LocalTimes == {[hour |-> 9, minute |-> 40], [hour |-> 0, minute |-> 30]}

\* HGSmartScheduleTime.async_set_value
ScheduleTimeSet ==
    /\ EntitiesAdded
    /\ IF SchedulesMissing THEN NotAvailable("set_time")
       ELSE \E value \in LocalTimes :
            AwaitControl("set_time", "set_schedule",
                         [device_id |-> "d1", slot |-> EntitySlot,
                          hour |-> as_utc_hour(value.hour), minute |-> value.minute,
                          portions |-> Get(ScheduleOrEmpty, "portions", 1),
                          enabled |-> Get(ScheduleOrEmpty, "enabled", FALSE)],
                         TRUE, ScheduleOrEmpty)
    /\ UNCHANGED <<syncVars, codecVars, peer>>

\* HGSmartSchedulePortions.async_set_native_value
SchedulePortionsSet ==
    /\ EntitiesAdded
    /\ IF SchedulesMissing THEN NotAvailable("set_portions")
       ELSE AwaitControl("set_portions", "set_schedule",
                         [device_id |-> "d1", slot |-> EntitySlot,
                          hour |-> Get(ScheduleOrEmpty, "hour", 8),
                          minute |-> Get(ScheduleOrEmpty, "minute", 0),
                          portions |-> 2,
                          enabled |-> Get(ScheduleOrEmpty, "enabled", FALSE)],
                         TRUE, ScheduleOrEmpty)
    /\ UNCHANGED <<syncVars, codecVars, peer>>

(***************************************************************************)
(* The codec applied to bounded inputs.                                    *)
(***************************************************************************)
MinuteSamples == {0, 1, 9, 10, 30, 40, 59}

BuildArgs ==
    [hour : 0..23, minute : MinuteSamples, portions : 1..9, slot : 0..5,
     enabled : BOOLEAN]

\* Arguments build_plan_value does not check: an hour, a minute or portions
\* out of range.
OutOfRangeArgs ==
    [hour : {9, 24, 100, -1}, minute : {40, 60, 100}, portions : {3, 0, 10},
     slot : {3}, enabled : BOOLEAN]

ValidArgs(a) ==
    /\ a.hour \in 0..23
    /\ a.minute \in 0..59
    /\ a.portions \in 1..9
    /\ a.slot \in 0..5

StatusChars == {"0", "1", "2", "3", "x"}

HourStrs ==
    {Fmt02(h) : h \in {0, 9, 10, 22, 23, 24, 84, 99}}
        \cup {<<"+", "5">>, <<" ", "7">>, <<"-", "1">>, <<"x", "1">>, <<"1", "_">>}

MinuteStrs ==
    {Fmt02(m) : m \in {0, 3, 9, 34, 40, 59, 60, 99}} \cup {<<"9", "x">>}

SpacerChars == {"0", "5"}

PortionChars == {"0", "1", "3", "9", "x"}

SlotChars == {"0", "1", "2", "3", "5", "6", "x"}

\* The decode examples of the specification.
DecodeExamples ==
    {<<>>, <<"0">>, <<"1", "2", "3", "4">>,
     <<"3", "2", "2", "3", "4", "5", "0", "1">>,
     <<"0", "8", "4", "0", "3", "0", "1", "2">>}

ShortInputs ==
    {<<>>, <<"0">>, <<"1">>, <<"1", "2", "3", "4">>,
     <<"1", "0", "9", "4", "0", "0", "3">>}

LongInputs ==
    {<<"1", "0", "9", "4", "0", "0", "3", "3", "7">>,
     <<"0", "0", "9", "4", "0", "0", "3", "3", "7">>}

RawInputs ==
    ShortInputs \cup LongInputs \cup DecodeExamples \cup
    {<<s>> \o hh \o mm \o <<x, p, d>> :
        s \in StatusChars, hh \in HourStrs, mm \in MinuteStrs,
        x \in SpacerChars, p \in PortionChars, d \in SlotChars}

\* The operations of HGSmartApiClient.build_plan_value; any other string is
\* treated like "edit".
Operations == {"create", "edit", "disable", "delete", "update"}

ApiBuildArgs ==
    [hour : 0..23, minute : MinuteSamples, portions : 1..9, slot : 0..5,
     operation : Operations]

InitSync ==
    /\ cy_pc = "idle"
    /\ supported_devices = <<>>
    /\ idx = 0
    /\ stats = None
    /\ device_data = EmptyDict
    /\ data = None
    /\ last_update_success = TRUE
    /\ last_exception = NoException

CodecOff ==
    /\ codec_pc = "off"
    /\ args = None
    /\ plan_value = <<>>
    /\ parsed = None

InitCodec ==
    /\ InitApi
    /\ InitSync
    /\ HostOff
    /\ parsed = None
    /\ \/ codec_pc = "build" /\ args \in BuildArgs \cup OutOfRangeArgs /\ plan_value = <<>>
       \/ codec_pc = "api_build" /\ args \in ApiBuildArgs /\ plan_value = <<>>
       \/ codec_pc = "raw" /\ args = None /\ plan_value \in RawInputs

\* build_plan_value(hour, minute, portions, slot, enabled)
BuildPlanValue ==
    /\ codec_pc = "build"
    /\ plan_value' = build_plan_value(args.hour, args.minute, args.portions,
                                      args.slot, args.enabled)
    /\ codec_pc' = "built"
    /\ UNCHANGED <<args, parsed, apiVars, syncVars, peer, uuidVars, hostVars>>

\* parse_plan_value(plan_value), of a raw input or of what build_plan_value built
ParsePlanValue ==
    /\ codec_pc \in {"raw", "built"}
    /\ parsed' = parse_plan_value(plan_value)
    /\ codec_pc' = IF codec_pc = "built" THEN "roundtrip" ELSE "parsed"
    /\ UNCHANGED <<args, plan_value, apiVars, syncVars, peer, uuidVars, hostVars>>

\* HGSmartApiClient.build_plan_value(hour, minute, portions, slot, operation)
ApiBuildPlanValue ==
    /\ codec_pc = "api_build"
    /\ plan_value' = api_build_plan_value(args.hour, args.minute, args.portions,
                                          args.slot, args.operation)
    /\ codec_pc' = "api_built"
    /\ UNCHANGED <<args, parsed, apiVars, syncVars, peer, uuidVars, hostVars>>

\* HGSmartApiClient.parse_plan_value of what its build_plan_value built
ApiParsePlanValue ==
    /\ codec_pc = "api_built"
    /\ parsed' = api_parse_plan_value(plan_value)
    /\ codec_pc' = "api_roundtrip"
    /\ UNCHANGED <<args, plan_value, apiVars, syncVars, peer, uuidVars, hostVars>>

NextCodec == BuildPlanValue \/ ParsePlanValue \/ ApiBuildPlanValue \/ ApiParsePlanValue

SpecCodec == InitCodec /\ [][NextCodec]_vars

(***************************************************************************)
(* The client alone, its operations called one after the other.            *)
(***************************************************************************)
InitClient == InitApi /\ InitSync /\ CodecOff /\ HostOff

NextApi ==
    \/ Login
    \/ GetDevices
    \/ GetDevicesRequest
    \/ RefreshAccessToken
    \/ GetFeederStats
    \/ GetDeviceAttributes
    \/ SetFeedingSchedule
    \/ SendFeedCommand

SpecApi == InitClient /\ [][NextApi]_vars

(***************************************************************************)
(* Two get_devices calls in flight on one client.                          *)
(***************************************************************************)
NextConcurrent ==
    \/ Login
    \/ GetDevices
    \/ GetDevicesRequest
    \/ RefreshAccessToken
    \/ PeerGetDevices
    \/ PeerRequest
    \/ PeerRefreshPost
    \/ PeerRefreshAnswer

SpecConcurrent == InitClient /\ [][NextConcurrent]_vars

(***************************************************************************)
(* The integration: login, then the coordinator's cycles over the client.  *)
(***************************************************************************)
Init == InitApi /\ InitSync /\ CodecOff /\ HostOff

Next ==
    \/ SetupEntry
    \/ CycleStart
    \/ GetDevicesRequest
    \/ RefreshAccessToken
    \/ CycleListed
    \/ CycleStats
    \/ CycleAttrs

Spec == Init /\ [][Next]_vars

\* The integration with its entities, against a cloud that stores the plan of
\* the entities' slot: 09:40, 3 portions, enabled.
InitEntities ==
    /\ InitApi
    /\ InitSync
    /\ CodecOff
    /\ ent = NoEntity
    /\ cloud_plan = <<"1", "0", "9", "4", "0", "0", "3", "3">>

NextEntities ==
    \/ SetupEntry
    \/ CycleStart
    \/ GetDevicesRequest
    \/ RefreshAccessToken
    \/ CycleListed
    \/ CycleStats
    \/ CycleAttrs
    \/ SwitchTurnOn
    \/ SwitchTurnOff
    \/ FeedButtonPress
    \/ ResetDesiccantPress
    \/ FoodRemainingSet
    \/ ScheduleTimeSet
    \/ SchedulePortionsSet

SpecEntities == InitEntities /\ [][NextEntities]_vars

AllDigits(s) == \A i \in 1..Len(s) : s[i] \in DigitChars

TwoDigits(s, i) == DigitVal(s[i]) * 10 + DigitVal(s[i + 1])

(***************************************************************************)
(* C2 (as stated): for every valid hour, minute, portions, slot and        *)
(* enabled in {true, false}, parse_plan_value(build_plan_value(...))       *)
(* returns a record with the same hour, minute, portions and enabled.      *)
(***************************************************************************)
C2_RoundTripAnyEnabled ==
    (codec_pc = "roundtrip" /\ ValidArgs(args)) =>
        /\ IsSlotData(parsed)
        /\ parsed.hour = args.hour
        /\ parsed.minute = args.minute
        /\ parsed.portions = args.portions
        /\ parsed.enabled = args.enabled

(***************************************************************************)
(* C2 (amended): for every valid hour, minute, portions and slot, the      *)
(* round trip of an enabled schedule returns a record with the same hour,  *)
(* minute and portions and enabled = true; the round trip of a disabled    *)
(* schedule (status digit 0) returns absent.                               *)
(***************************************************************************)
C2_RoundTripEnabled ==
    (codec_pc = "roundtrip" /\ ValidArgs(args)) =>
        IF args.enabled
        THEN /\ IsSlotData(parsed)
             /\ parsed.hour = args.hour
             /\ parsed.minute = args.minute
             /\ parsed.portions = args.portions
             /\ parsed.enabled = TRUE
        ELSE parsed = None

C2_Witness ==
    /\ codec_pc = "roundtrip"
    /\ args = [hour |-> 9, minute |-> 40, portions |-> 3, slot |-> 3, enabled |-> TRUE]
    /\ plan_value = <<"1", "0", "9", "4", "0", "0", "3", "3">>
    /\ IsSlotData(parsed)
    /\ parsed.hour = 9

(***************************************************************************)
(* C8: parse_plan_value returns absent for every input that is empty, is   *)
(* "0", is shorter than 8 characters, has its hour outside 0..23, its      *)
(* minute outside 0..59, portions digit 0, or status digit 0 or 3 (the     *)
(* five examples of the specification among them), and it never raises.    *)
(***************************************************************************)
RejectedInput(pv) ==
    \/ pv = <<>>
    \/ pv = <<"0">>
    \/ Len(pv) < 8
    \/ /\ Len(pv) >= 8
       /\ \/ py_int(Slice(pv, 1, 3)).ok /\ py_int(Slice(pv, 1, 3)).val \notin 0..23
          \/ py_int(Slice(pv, 3, 5)).ok /\ py_int(Slice(pv, 3, 5)).val \notin 0..59
          \/ pv[7] = "0"
          \/ pv[1] \in {"0", "3"}

C8_RejectsToAbsent ==
    codec_pc \in {"parsed", "roundtrip"} =>
        /\ ~Raised(parsed)
        /\ RejectedInput(plan_value) => parsed = None
        /\ plan_value \in DecodeExamples => parsed = None

C8_Witness ==
    /\ codec_pc = "parsed"
    /\ plan_value = <<"3", "2", "2", "3", "4", "5", "0", "1">>
    /\ parsed = None

(***************************************************************************)
(* C9: for every 8-digit plan string SHHMMXPD with status digit 1, HH in   *)
(* 00..23, MM in 00..59 and portions digit 1..9, parse_plan_value returns  *)
(* enabled = true with hour, minute, portions and slot read from exactly   *)
(* those positions ("10940033": hour 9, minute 40, portions 3, slot 3).    *)
(***************************************************************************)
C9_DecodesFields ==
    (/\ codec_pc \in {"parsed", "roundtrip"}
     /\ Len(plan_value) = 8
     /\ AllDigits(plan_value)
     /\ plan_value[1] = "1"
     /\ TwoDigits(plan_value, 2) \in 0..23
     /\ TwoDigits(plan_value, 4) \in 0..59
     /\ DigitVal(plan_value[7]) \in 1..9) =>
        parsed = [enabled |-> TRUE,
                  hour |-> TwoDigits(plan_value, 2),
                  minute |-> TwoDigits(plan_value, 4),
                  portions |-> DigitVal(plan_value[7]),
                  slot |-> DigitVal(plan_value[8])]

C9_Witness ==
    /\ codec_pc = "parsed"
    /\ plan_value = <<"1", "0", "9", "4", "0", "5", "3", "3">>
    /\ parsed = [enabled |-> TRUE, hour |-> 9, minute |-> 40, portions |-> 3, slot |-> 3]

(***************************************************************************)
(* C10: every record parse_plan_value returns, for any input string, has   *)
(* hour in 0..23, minute in 0..59, portions in 1..9 and slot in 0..5.      *)
(***************************************************************************)
C10_ParsedInRange ==
    (codec_pc \in {"parsed", "roundtrip"} /\ IsSlotData(parsed)) =>
        /\ parsed.hour \in 0..23
        /\ parsed.minute \in 0..59
        /\ parsed.portions \in 1..9
        /\ parsed.slot \in 0..5

(***************************************************************************)
(* C1: a get_devices call that receives code 401 performs exactly one      *)
(* refresh exchange and, when the refresh succeeds, exactly one retried    *)
(* request; when the retry is answered 401 too, the call returns without   *)
(* a second refresh or a third request, whatever the cloud answers.        *)
(***************************************************************************)
C1_SingleRefreshThenRetry ==
    (call.op = "get_devices" /\ call.codes # <<>> /\ call.codes[1] = 401) =>
        /\ Len(call.refreshes) <= 1
        /\ Len(call.sent) <= 2
        /\ (call.pc = "returned" /\ refresh_token # 0) => Len(call.refreshes) = 1

(***************************************************************************)
(* C3: when the device list of a cycle is empty or the list call failed    *)
(* (get_devices returned []), the cycle ends with UpdateFailed, the        *)
(* success flag is false and the published snapshot is what it was.        *)
(***************************************************************************)
C3_EmptyListKeepsSnapshot ==
    [][(cy_pc = "list" /\ call.pc = "returned" /\ call.result = <<>> /\ cy_pc' # "list") =>
            /\ cy_pc' = "idle"
            /\ last_exception' = "UpdateFailed"
            /\ last_update_success' = FALSE
            /\ data' = data]_vars

\* A cycle has failed on an empty list after an earlier one published a snapshot.
C3_Witness ==
    /\ cy_pc = "idle"
    /\ call.op = "get_devices"
    /\ call.pc = "returned"
    /\ call.result = <<>>
    /\ last_exception = "UpdateFailed"
    /\ last_update_success = FALSE
    /\ data # None
    /\ "d1" \in DOMAIN data

(***************************************************************************)
(* C4: in a cycle with a supported device, a failed stats or attributes    *)
(* fetch does not fail the cycle: the device's entry is stored with {} for *)
(* what could not be fetched, no entry stored before is lost, and the      *)
(* published snapshot has an entry for every supported device of the list, *)
(* with the success flag true.                                             *)
(***************************************************************************)
C4_FetchFailureKeepsDevice ==
    [][(cy_pc = "attrs" /\ cy_pc' # "attrs") =>
            LET id == supported_devices[idx].deviceId
                new == IF cy_pc' = "idle" THEN data' ELSE device_data'
            IN  /\ cy_pc' \in {"stats", "idle"}
                /\ new # None
                /\ id \in DOMAIN new
                /\ \A k \in DOMAIN device_data \ {id} :
                        k \in DOMAIN new /\ new[k] = device_data[k]
                /\ stats = None => new[id].stats = EmptyDict
                /\ call'.result = None => new[id].attributes = EmptyDict
                /\ cy_pc' = "idle" =>
                        /\ last_update_success' = TRUE
                        /\ last_exception' = NoException
                        /\ DOMAIN data' =
                            {supported_devices[i].deviceId :
                                i \in 1..Len(supported_devices)}]_vars

\* A published snapshot of two devices: the stats of the first are empty, the
\* attributes fetch of the second failed.
C4_Witness ==
    /\ cy_pc = "idle"
    /\ last_update_success = TRUE
    /\ data # None
    /\ DOMAIN data = {"d1", "d2"}
    /\ data["d1"].stats = EmptyDict
    /\ data["d2"].stats = StatsPayload
    /\ data["d2"].attributes = EmptyDict
    /\ call.op = "get_device_attributes"
    /\ call.codes = <<0>>

(***************************************************************************)
(* C5: every device entry of every published snapshot has a schedule table *)
(* with exactly the slot indices 0..5, also when the attributes fetch      *)
(* failed or returned an empty payload; a missing or undecodable slot      *)
(* holds the default (disabled, 08:00, 1 portion).                         *)
(***************************************************************************)
C5_CompleteScheduleTable ==
    data # None =>
        \A id \in DOMAIN data :
            /\ DOMAIN data[id].schedules = 0..5
            /\ \A slot \in 0..5 :
                ~IsSlotData(parse_plan_value(
                        Get(data[id].attributes, PlanKeys[slot + 1], <<"0">>))) =>
                    data[id].schedules[slot] =
                        [enabled |-> FALSE, hour |-> 8, minute |-> 0, portions |-> 1,
                         slot |-> slot]

(***************************************************************************)
(* C6: get_feeder_stats, get_device_attributes, set_feeding_schedule and   *)
(* send_feed_command react to code 401 like get_devices: one token refresh *)
(* and one retry of the request with the new token.                        *)
(***************************************************************************)
C6_EveryOperationRefreshesOn401 ==
    (/\ call.op \in {"get_feeder_stats", "get_device_attributes",
                     "set_feeding_schedule", "send_feed_command"}
     /\ call.pc = "returned"
     /\ call.codes[1] = 401
     /\ refresh_token # 0) =>
        /\ Len(call.refreshes) = 1
        /\ Len(call.sent) <= 2

(***************************************************************************)
(* C7: a control operation called with an input out of range (schedule     *)
(* slot, hour, minute or portions) fails without issuing a network         *)
(* request.                                                                *)
(***************************************************************************)
C7_ValidatesBeforeRequest ==
    (call.op = "set_feeding_schedule" /\ ~ValidScheduleArgs(call.arg)) =>
        /\ call.sent = <<>>
        /\ call.result = FALSE

(***************************************************************************)
(* C11: build_plan_value returns a string of exactly 8 characters for      *)
(* every input, also for an hour, a minute or portions out of range.       *)
(***************************************************************************)
C11_AlwaysEightCharacters ==
    codec_pc \in {"built", "roundtrip"} => Len(plan_value) = 8

(***************************************************************************)
(* C12: login returns True, with the returned access and refresh tokens    *)
(* stored, exactly when the answer has code 200; on any other code and on  *)
(* a transport failure it returns False and the client holds no access     *)
(* token afterwards, also when it held one before the call.                *)
(***************************************************************************)
C12_LoginFailureUnauthenticates ==
    (call.op = "login" /\ call.pc = "returned") =>
        /\ call.result = TRUE <=> call.codes = <<200>>
        /\ call.result = TRUE => (access_token = issued /\ refresh_token = issued)
        /\ call.result = FALSE => access_token = 0

(***************************************************************************)
(* C13: when refresh_access_token returns False the client holds no token  *)
(* pair afterwards (no later request carries the old access token), and    *)
(* with no stored refresh token it returns False without an exchange.      *)
(***************************************************************************)
C13_RefreshFailureUnauthenticates ==
    [][(call.pc = "refresh" /\ call'.pc = "returned") =>
            /\ access_token' = 0
            /\ refresh_token' = 0
            /\ refresh_token = 0 => call'.refreshes = call.refreshes]_vars

(***************************************************************************)
(* C14: the login endpoint is requested only by login(): no request or     *)
(* exchange of refresh_access_token or of a request operation goes to it,  *)
(* whatever codes and refresh failures the operation meets.                *)
(***************************************************************************)
C14_OnlyLoginSendsCredentials ==
    \A i \in 1..Len(call.urls) :
        call.urls[i] = "/oauth/login" => (call.op = "login" /\ Len(call.urls) = 1)

\* A get_devices that was answered 401 twice, whose second refresh exchange
\* failed: it has returned [] without a login.
C14_Witness ==
    /\ call.op = "get_devices"
    /\ call.pc = "returned"
    /\ call.codes = <<401, 401>>
    /\ Len(call.refreshes) = 2
    /\ call.result = <<>>
    /\ call.urls = <<"/app/device/list", "/oauth/refreshToken",
                     "/app/device/list", "/oauth/refreshToken">>

(***************************************************************************)
(* C15: after every login and every refresh exchange, whatever the body of *)
(* the answer, the stored access token and the stored refresh token come   *)
(* from the same exchange: both the previous pair or both the new pair.    *)
(***************************************************************************)
C15_TokenPairFromOneExchange == access_token = refresh_token

(***************************************************************************)
(* C16: a refresh token value is submitted to the refresh endpoint in at   *)
(* most one refresh exchange, also when two get_devices calls are in       *)
(* flight on the client and each is answered 401.                          *)
(***************************************************************************)
C16_RefreshTokenSubmittedOnce ==
    LET submitted == call.refreshes \o peer.refreshes
    IN  \A i, j \in 1..Len(submitted) : i # j => submitted[i] # submitted[j]

(***************************************************************************)
(* C17: the snapshot is replaced in one step and in full. While a cycle    *)
(* runs, and when it fails, coordinator.data stays what it was; it changes *)
(* only in the step that ends a successful cycle, and then its device set  *)
(* is exactly the supported devices of the cycle's device list, each with  *)
(* the record of that list, and none carried over from the old snapshot.   *)
(***************************************************************************)
C17_SnapshotReplacedAtomically ==
    [][/\ data' # data => (cy_pc = "attrs" /\ cy_pc' = "idle" /\ last_update_success')
       /\ (cy_pc = "list" /\ cy_pc' = "stats") =>
                supported_devices' = Supported(call.result)
       /\ (cy_pc \in {"stats", "attrs"} /\ cy_pc' # "idle") =>
                supported_devices' = supported_devices
       /\ (cy_pc = "attrs" /\ cy_pc' = "idle") =>
            /\ DOMAIN data' =
                    {supported_devices[i].deviceId : i \in 1..Len(supported_devices)}
            /\ \A i \in 1..Len(supported_devices) :
                    data'[supported_devices[i].deviceId].device_info =
                        supported_devices[i]]_vars

\* In the middle of a cycle over one device, the snapshot of the cycle
\* before, with two devices, is still the published one.
C17_Witness ==
    /\ cy_pc = "attrs"
    /\ supported_devices = <<D1>>
    /\ device_data = EmptyDict
    /\ data # None
    /\ DOMAIN data = {"d1", "d2"}
    /\ last_update_success = TRUE

(***************************************************************************)
(* C18: no device of a type other than "S25D" is in a published snapshot;  *)
(* a list that holds a supported device next to unsupported ones does not  *)
(* fail at the filter, and the cycle goes on with the supported devices    *)
(* alone; a non-empty list without a supported device ends the cycle like  *)
(* an empty one: UpdateFailed, the snapshot retained, the success flag     *)
(* false.                                                                  *)
(***************************************************************************)
C18_UnsupportedDevicesSkipped ==
    [][/\ data' # None =>
            \A id \in DOMAIN data' : Get(data'[id].device_info, "type", "") = "S25D"
       /\ (cy_pc = "list" /\ call.pc = "returned" /\ call.result # <<>>
                /\ cy_pc' # "list") =>
            LET devices == call.result
                allowed == {i \in 1..Len(devices) : Get(devices[i], "type", "") = "S25D"}
            IN  IF allowed # {}
                THEN /\ cy_pc' = "stats"
                     /\ Len(supported_devices') = Cardinality(allowed)
                     /\ \A i \in 1..Len(supported_devices') :
                            supported_devices'[i].type = "S25D"
                     /\ data' = data
                     /\ last_update_success' = last_update_success
                ELSE /\ cy_pc' = "idle"
                     /\ last_exception' = "UpdateFailed"
                     /\ last_update_success' = FALSE
                     /\ data' = data]_vars

\* A cycle whose list held an unsupported device alone has failed; the
\* snapshot of an earlier cycle is still published.
C18_Witness ==
    /\ cy_pc = "idle"
    /\ call.op = "get_devices"
    /\ call.pc = "returned"
    /\ call.result = <<X3>>
    /\ last_exception = "UpdateFailed"
    /\ last_update_success = FALSE
    /\ data # None
    /\ DOMAIN data = {"d1"}

(***************************************************************************)
(* C19: whatever is raised inside a cycle (UpdateFailed on an empty or     *)
(* unsupported list, KeyError on a device record without deviceId), what   *)
(* leaves _async_update_data is UpdateFailed and nothing else; a cycle     *)
(* ends either by returning its dict or by UpdateFailed.                   *)
(***************************************************************************)
C19_OnlyUpdateFailedEscapes ==
    /\ last_exception \in {NoException, "UpdateFailed"}
    /\ last_update_success <=> last_exception = NoException

\* A cycle has met a device record without deviceId after it had fetched the
\* first device: the KeyError left the cycle as UpdateFailed.
C19_Witness ==
    /\ cy_pc = "idle"
    /\ call.op = "get_device_attributes"
    /\ call.arg = "d1"
    /\ last_exception = "UpdateFailed"
    /\ last_update_success = FALSE

(***************************************************************************)
(* C20: an operation that meets a transport failure, a malformed body or a *)
(* code other than 200 returns its failure value and leaves the stored     *)
(* tokens as they were: False for login, refresh_access_token and the      *)
(* control operations, [] for get_devices, None for get_feeder_stats and   *)
(* get_device_attributes. (A 401 that get_devices answers with a refresh   *)
(* is judged at the refresh and at the retried request.)                   *)
(***************************************************************************)
C20_FailureValueAndTokensKept ==
    [][/\ (CallIdle /\ call'.pc = "returned" /\ call'.op = "login") =>
            /\ call'.codes # <<200>> => call'.result = FALSE
            /\ call'.result = FALSE => tokenVars' = tokenVars
       /\ (CallIdle /\ call'.pc = "returned"
                /\ call'.op \in {"set_feeding_schedule", "send_feed_command"}
                /\ call'.codes # <<200>>) =>
            /\ call'.result = FALSE
            /\ tokenVars' = tokenVars
       /\ (CallIdle /\ call'.pc = "returned"
                /\ call'.op \in {"get_feeder_stats", "get_device_attributes"}
                /\ call'.codes # <<200>>) =>
            /\ call'.result = None
            /\ tokenVars' = tokenVars
       /\ (call.pc = "request" /\ call'.pc = "returned"
                /\ call'.codes[Len(call'.codes)] # 200) =>
            /\ call'.result = <<>>
            /\ tokenVars' = tokenVars
       /\ (call.pc = "refresh" /\ call'.pc = "returned") =>
            /\ call'.result = <<>>
            /\ tokenVars' = tokenVars]_vars

(***************************************************************************)
(* C25: HGSmartApiClient.build_plan_value returns, for every operation     *)
(* (create, edit, disable, delete), a string of 8 characters: 2 digits of  *)
(* hour, 2 of minute, 2 of portions and a trailer of 2 digits.             *)
(***************************************************************************)
C25_LegacyEightCharacters ==
    (codec_pc \in {"api_built", "api_roundtrip"}
        /\ args.operation \in {"create", "edit", "disable", "delete"}) =>
        /\ Len(plan_value) = 8
        /\ AllDigits(plan_value)

(***************************************************************************)
(* C30: for hour in 0..23, minute in 0..59, portions in 1..9, slot in 0..5 *)
(* and operation edit or disable, HGSmartApiClient.parse_plan_value of     *)
(* what HGSmartApiClient.build_plan_value built returns the same hour,     *)
(* minute and portions, with enabled true for edit and false for disable.  *)
(***************************************************************************)
C30_LegacyRoundTrip ==
    (codec_pc = "api_roundtrip" /\ ValidArgs(args)
        /\ args.operation \in {"edit", "disable"}) =>
        /\ IsSlotData(parsed)
        /\ parsed.hour = args.hour
        /\ parsed.minute = args.minute
        /\ parsed.portions = args.portions
        /\ parsed.enabled = (args.operation = "edit")

C30_Witness ==
    /\ codec_pc = "api_roundtrip"
    /\ args = [hour |-> 9, minute |-> 40, portions |-> 3, slot |-> 3,
               operation |-> "disable"]
    /\ plan_value = <<"0", "9", "4", "0", "0", "3", "0", "3", "2">>
    /\ IsSlotData(parsed)
    /\ parsed.hour = 9
    /\ parsed.portions = 3
    /\ parsed.enabled = FALSE

(***************************************************************************)
(* C26: when get_devices retries after a refresh that succeeded, the       *)
(* retried request carries the access token that refresh was issued, the   *)
(* one now stored, and not the token of the request answered 401.          *)
(***************************************************************************)
C26_RetryCarriesNewToken ==
    [][/\ (call.op = "get_devices" /\ call.pc = "refresh" /\ call'.pc = "request") =>
            /\ issued' = issued + 1
            /\ access_token' = issued'
       /\ (call.op = "get_devices" /\ call.pc = "request" /\ call.sent # <<>>
                /\ Len(call'.sent) = Len(call.sent) + 1) =>
            LET n == Len(call'.sent)
            IN  /\ call'.sent[n] = issued
                /\ call'.sent[n] = access_token
                /\ call'.sent[n] # call'.sent[n - 1]]_vars

\* A get_devices answered 401 with the first token, and 200 with the second.
C26_Witness ==
    /\ call.op = "get_devices"
    /\ call.pc = "returned"
    /\ call.codes = <<401, 200>>
    /\ call.sent = <<1, 2>>
    /\ call.refreshes = <<1>>
    /\ call.result = <<D1>>

(***************************************************************************)
(* C27: in every published snapshot, the record at schedule index i of a   *)
(* device has its slot field equal to i, whatever slot digit the plan{i}   *)
(* value of the device carries.                                            *)
(***************************************************************************)
C27_SlotFieldIsIndex ==
    data # None =>
        \A id \in DOMAIN data :
            \A i \in DOMAIN data[id].schedules : data[id].schedules[i].slot = i

(***************************************************************************)
(* C23: any two control commands the client builds (feed or schedule, in   *)
(* any order and number) carry different message_id values.                *)
(***************************************************************************)
C23_MessageIdsDiffer ==
    \A i, j \in 1..Len(message_ids) : i # j => message_ids[i] # message_ids[j]

\* Two commands built while the clock read the same value: the second
\* message_id has the next timestamp.
C23_Witness ==
    /\ Len(message_ids) = 2
    /\ message_ids[1].time = 3
    /\ message_ids[2].time = 4
    /\ call.op = "send_feed_command"

\* The snapshot published by the last successful cycle holds the entities'
\* device, and no cycle or call is running.
Settled ==
    /\ cy_pc = "idle"
    /\ CallIdle
    /\ last_update_success
    /\ Truthy(DeviceData)

\* C21: when the switch's set_feeding_schedule(d1, slot, h, m, p, enabled =
\* true) has returned success and a successful cycle has published the
\* attributes in which plan{slot} is the written value verbatim, schedules[slot]
\* of that snapshot has hour h, minute m, portions p and is enabled.
C21_WriteThenRepollConverges ==
    (/\ Settled
     /\ ent.op = "turn_on" /\ ent.request /\ ent.success
     /\ Get(DeviceData.attributes, PlanKeys[EntitySlot + 1], NoPlan) = CommandValue(ent.args))
        => /\ ScheduleRead.hour = ent.args.hour
           /\ ScheduleRead.minute = ent.args.minute
           /\ ScheduleRead.portions = ent.args.portions
           /\ ScheduleRead.enabled

C28_OffThenOnPreserves ==
    (/\ Settled
     /\ SnapshotFresh
     /\ ent.op = "turn_on" /\ ent.request /\ ent.success /\ ent.fresh
     /\ ent.prev_op = "turn_off" /\ ent.prev_ok
     /\ ent.prev_schedule.enabled)
        => /\ ScheduleRead.enabled
           /\ ScheduleRead.hour = ent.prev_schedule.hour
           /\ ScheduleRead.minute = ent.prev_schedule.minute
           /\ ScheduleRead.portions = ent.prev_schedule.portions

\* C29: a schedule write that returned false leaves its handler with an
\* exception raised to the host, in the switch as in the time and portions
\* entities.
C29_FailedWriteRaises ==
    (/\ ent.op \in {"turn_on", "turn_off", "set_time", "set_portions"}
     /\ ent.request
     /\ ~ent.success)
        => ent.raised # NoException

====
